---------------------------- MODULE Spec2Model ----------------------------
(***************************************************************************)
(* The follow-request workflow, the follower graph, posts, likes, comments *)
(* stories and direct messages, the notifications they emit and the pages  *)
(* that list them (core/follow_views.py, core/post_views.py,               *)
(* core/story_views.py, core/message_views.py, core/notification_views.py, *)
(* core/notification_utils.py, core/models.py).  A request handler is one  *)
(* atomic action: the tables before the request, the tables after it, and  *)
(* the response it ends in.  SpecFollowRace and SpecLikeRace take the      *)
(* follow views and toggle_like one database statement at a time instead,  *)
(* several requests in progress at once.  The writing requests are POSTs   *)
(* that name an existing username; a GET of those routes only redirects.   *)
(***************************************************************************)
EXTENDS Integers, FiniteSets, TLC

\* ------------------------------------------------------------------ bounds
\* primary keys each table hands out before the model stops creating rows
MaxId == 3
\* posts, and stories, created before the model stops creating them
MaxPosts == 1
MaxStories == 1
\* comments written before the model stops creating them
MaxComments == 1
\* primary keys of Like the model lets the views hand out
MaxLikes == 2
\* requests the server handles at the same time
MaxCalls == 2

\* the accounts; every operation below concerns one ordered pair of them, and
\* both directions of the pair are live at once
Users == {"alice", "bob"}
\* placeholder for an argument a view does not take
NoUser == "-"

VARIABLES
    is_private,             \* UserProfile.is_private, per user
    FollowRequest,          \* rows of the FollowRequest table
    Follow,                 \* rows of the Follow table
    Notification,           \* rows of the Notification table
    next_request_id,        \* next primary key of FollowRequest
    next_follow_id,         \* next primary key of Follow
    next_notification_id,   \* next primary key of Notification
    Post,                   \* rows of the Post table
    Like,                   \* rows of the Like table
    Comment,                \* rows of the Comment table
    Story,                  \* rows of the Story table
    next_post_id,           \* next primary key of Post
    next_comment_id,        \* next primary key of Comment
    next_story_id,          \* next primary key of Story
    next_like_id,           \* next primary key of Like
    Thread,                 \* rows of the Thread table, with their participants
    Message,                \* rows of the Message table
    next_thread_id,         \* next primary key of Thread
    next_message_id,        \* next primary key of Message
    calls,                  \* the requests being handled: position and local variables
    last                    \* the request handled last and its response

tables == <<FollowRequest, Follow, Notification>>
counters == <<next_request_id, next_follow_id, next_notification_id>>
\* what users publish and what others do with it (post_models.py, story_models.py)
content == <<Post, Like, Comment, Story, next_post_id, next_comment_id, next_story_id,
            next_like_id>>
\* direct messages (message_models.py)
messaging == <<Thread, Message, next_thread_id, next_message_id>>
vars == <<is_private, FollowRequest, Follow, Notification,
          next_request_id, next_follow_id, next_notification_id,
          Post, Like, Comment, Story, next_post_id, next_comment_id, next_story_id,
          next_like_id, Thread, Message, next_thread_id, next_message_id, calls,
          last>>

\* ------------------------------------------------------------------ rows
\* FollowRequest.STATUS_CHOICES
STATUS_CHOICES == {"pending", "accepted", "declined"}

\* Notification.NOTIFICATION_TYPES
NOTIFICATION_TYPES ==
    {"like", "comment", "comment_reply", "mention", "tag",
     "follow", "follow_request", "follow_accepted",
     "message", "message_like", "group_message",
     "story_reply", "story_mention", "story_like",
     "live_video", "video_upload", "security_alert", "system_update"}

\* the last request: which view, by whom, on whom / on which request id
Response(op, user, target, request_id, outcome) ==
    [op |-> op, user |-> user, target |-> target,
     request_id |-> request_id, outcome |-> outcome]

\* FollowRequest.objects.filter(from_user=a, to_user=b)
RequestsOf(rows, a, b) == {r \in rows : r.from_user = a /\ r.to_user = b}

\* Follow.objects.filter(follower=a, following=b)
EdgesOf(rows, a, b) == {f \in rows : f.follower = a /\ f.following = b}

\* QuerySet.first() under Meta.ordering = ['-created_at']: the newest row
First(rows) == CHOOSE r \in rows : \A x \in rows : x.id <= r.id

\* Follow.is_following(user1, user2)
is_following(user1, user2) == EdgesOf(Follow, user1, user2) # {}

\* Model.save() of a loaded row: UPDATE by primary key
FollowRequest_save(rows, r) == {x \in rows : x.id # r.id} \cup {r}

\* FollowRequest.objects.create(from_user=a, to_user=b): status defaults to pending
FollowRequest_create(rows, id, a, b) ==
    rows \cup {[id |-> id, from_user |-> a, to_user |-> b, status |-> "pending"]}

\* mutant: create() where the code calls get_or_create()
Follow_always_create(rows, id, a, b) ==
    rows \cup {[id |-> id, follower |-> a, following |-> b]}

\* mutant: the edge is never stored
Follow_never_create(rows, id, a, b) == rows

\* Follow.objects.get_or_create(follower=a, following=b)
Follow_get_or_create(rows, id, a, b) ==
    IF EdgesOf(rows, a, b) # {}
    THEN rows
    ELSE rows \cup {[id |-> id, follower |-> a, following |-> b]}

\* whether that get_or_create inserted a row (and used up a primary key)
Follow_created(rows, a, b) == EdgesOf(rows, a, b) = {}

\* a Notification row as objects.create() stores it: post_id and comment_id
\* are 0 for NULL, is_read and is_seen take their default
Notification_row(id, recipient, sender, notification_type, post_id, comment_id) ==
    [id |-> id, recipient |-> recipient, sender |-> sender,
     notification_type |-> notification_type,
     post_id |-> post_id, comment_id |-> comment_id,
     is_read |-> FALSE, is_seen |-> FALSE]

\* Notification.objects.create(recipient, sender, notification_type, message)
Notification_create(rows, id, recipient, sender, notification_type) ==
    rows \cup {Notification_row(id, recipient, sender, notification_type, 0, 0)}

\* the slots in which the server handles requests, and a slot with no request:
\* a view that runs from its first statement to its last with nothing in
\* between never occupies one
Calls == 1..MaxCalls
Idle == [pc |-> "idle"]

\* ------------------------------------------------------------------ Init
Init ==
    /\ is_private \in [Users -> BOOLEAN]
    /\ FollowRequest = {}
    /\ Follow = {}
    /\ Notification = {}
    /\ next_request_id = 1
    /\ next_follow_id = 1
    /\ next_notification_id = 1
    /\ Post = {} /\ Like = {} /\ Comment = {} /\ Story = {}
    /\ next_post_id = 1 /\ next_comment_id = 1 /\ next_story_id = 1
    /\ next_like_id = 1
    /\ Thread = {} /\ Message = {}
    /\ next_thread_id = 1 /\ next_message_id = 1
    /\ calls = [c \in Calls |-> Idle]
    /\ last = Response("none", NoUser, NoUser, 0, "none")


\* ------------------------------------------------------------------ models.py
\* FollowRequest.accept(self): status = 'accepted', save(), then
\* Follow.objects.get_or_create(follower=from_user, following=to_user).
\* `requests` is the table as it stands when the method is called.
accept(requests, r) ==
    /\ Follow_created(Follow, r.from_user, r.to_user) => next_follow_id <= MaxId
    /\ FollowRequest' = FollowRequest_save(requests, [r EXCEPT !.status = "accepted"])
    /\ Follow' = Follow_get_or_create(Follow, next_follow_id, r.from_user, r.to_user)
    /\ next_follow_id' = IF Follow_created(Follow, r.from_user, r.to_user)
                         THEN next_follow_id + 1 ELSE next_follow_id

\* mutant: every pending row of the table is declined, not only self
decline_all_pending(requests, r) ==
    FollowRequest' = {IF x.status = "pending" THEN [x EXCEPT !.status = "declined"]
                      ELSE x : x \in requests}

\* FollowRequest.decline(self): status = 'declined', save()
decline(requests, r) ==
    FollowRequest' = FollowRequest_save(requests, [r EXCEPT !.status = "declined"])

\* ------------------------------------------------------------------ follow_views.py
\* mutant: the self-follow check left out
is_self_follow_unchecked(from_user, to_user) == FALSE

\* "Can't follow yourself": from_user == to_user
is_self_follow(from_user, to_user) == from_user = to_user

\* mutant: the lookup filters on status='pending'
existing_request_pending_only(from_user, to_user) ==
    LET found == {r \in RequestsOf(FollowRequest, from_user, to_user) :
                    r.status = "pending"}
    IN  IF found = {} THEN {} ELSE {First(found)}

\* existing_request = FollowRequest.objects.filter(from_user, to_user).first(),
\* as a set: empty for None
existing_request(from_user, to_user) ==
    LET found == RequestsOf(FollowRequest, from_user, to_user)
    IN  IF found = {} THEN {} ELSE {First(found)}

\* mutant: the edge looked up in the wrong direction
already_following_reversed(from_user, to_user) ==
    EdgesOf(Follow, to_user, from_user) # {}

\* already_following = Follow.objects.filter(follower, following).exists()
already_following(from_user, to_user) == EdgesOf(Follow, from_user, to_user) # {}

\* mutant: the declined branch creates a request instead of reusing the row
reopen_as_new_row(requests, r) ==
    FollowRequest_create(requests, next_request_id, r.from_user, r.to_user)

\* the declined branch: existing_request.status = 'pending'; existing_request.save()
reopen(requests, r) == FollowRequest_save(requests, [r EXCEPT !.status = "pending"])

\* mutant: every new request is accepted at once
auto_accept_always(to_user) == TRUE

\* "If the account is public, auto-accept the request"
auto_accept(to_user) == ~is_private[to_user]

\* the notification_type the new-request branch stores
sent_notification_type(to_user) ==
    IF auto_accept(to_user) THEN "new_follower" ELSE "follow_request"

\* send_follow_request(request, username), POST by from_user on to_user
send_follow_request(from_user, to_user) ==
    LET existing == existing_request(from_user, to_user)
        respond(outcome) ==
            last' = Response("send_follow_request", from_user, to_user, 0, outcome)
    IN
    IF is_self_follow(from_user, to_user)
    THEN /\ respond("invalid")
         /\ UNCHANGED <<is_private, tables, counters>>
    ELSE IF already_following(from_user, to_user)
    THEN /\ respond("already_following")
         /\ UNCHANGED <<is_private, tables, counters>>
    ELSE IF existing # {}
    THEN LET er == First(existing) IN
         IF er.status = "pending"
         THEN /\ respond("duplicate")
              /\ UNCHANGED <<is_private, tables, counters>>
         ELSE IF er.status = "declined"
         THEN /\ FollowRequest' = reopen(FollowRequest, er)
              /\ respond("reopened")
              /\ UNCHANGED <<is_private, Follow, Notification, counters>>
         ELSE \* an accepted request without its edge: neither branch runs
              /\ respond("ignored")
              /\ UNCHANGED <<is_private, tables, counters>>
    ELSE LET created == FollowRequest_create(FollowRequest, next_request_id,
                                             from_user, to_user)
             follow_request == [id |-> next_request_id, from_user |-> from_user,
                                to_user |-> to_user, status |-> "pending"]
         IN
         /\ next_request_id <= MaxId
         /\ next_notification_id <= MaxId
         /\ next_request_id' = next_request_id + 1
         /\ IF auto_accept(to_user)
            THEN /\ accept(created, follow_request)
                 /\ respond("now_following")
            ELSE /\ FollowRequest' = created
                 /\ respond("request_sent")
                 /\ UNCHANGED <<Follow, next_follow_id>>
         /\ Notification' = Notification_create(Notification, next_notification_id,
                                to_user, from_user, sent_notification_type(to_user))
         /\ next_notification_id' = next_notification_id + 1
         /\ UNCHANGED is_private

\* mutant: the accepted request is left in the table
keep_accepted_requests(rows, from_user, to_user) == rows

\* FollowRequest.objects.filter(from_user, to_user, status='accepted').delete()
delete_accepted_requests(rows, from_user, to_user) ==
    {r \in rows : ~(/\ r.from_user = from_user
                    /\ r.to_user = to_user
                    /\ r.status = "accepted")}

\* mutant: unfollow_user also deletes what the followed account was told
unfollow_user_deleting_notifications(from_user, to_user) ==
    LET follow_relationship == EdgesOf(Follow, from_user, to_user) IN
    IF follow_relationship # {}
    THEN /\ Follow' = Follow \ {First(follow_relationship)}
         /\ FollowRequest' = delete_accepted_requests(FollowRequest, from_user, to_user)
         /\ Notification' = {n \in Notification :
                                ~(n.recipient = to_user /\ n.sender = from_user)}
         /\ last' = Response("unfollow_user", from_user, to_user, 0, "unfollowed")
         /\ UNCHANGED <<is_private, counters>>
    ELSE /\ last' = Response("unfollow_user", from_user, to_user, 0, "not_following")
         /\ UNCHANGED <<is_private, tables, counters>>

\* unfollow_user(request, username), POST by from_user on to_user
unfollow_user(from_user, to_user) ==
    LET follow_relationship == EdgesOf(Follow, from_user, to_user)
        respond(outcome) ==
            last' = Response("unfollow_user", from_user, to_user, 0, outcome)
    IN
    IF follow_relationship # {}
    THEN /\ Follow' = Follow \ {First(follow_relationship)}
         /\ FollowRequest' = delete_accepted_requests(FollowRequest, from_user, to_user)
         /\ respond("unfollowed")
         /\ UNCHANGED <<is_private, Notification, counters>>
    ELSE /\ respond("not_following")
         /\ UNCHANGED <<is_private, tables, counters>>

\* mutant: the lookup without to_user=request.user
get_pending_request_any_user(request_id, user) ==
    {r \in FollowRequest : r.id = request_id /\ r.status = "pending"}

\* get_object_or_404(FollowRequest, id=request_id, to_user=request.user,
\* status='pending'), as a set: empty for Http404
get_pending_request(request_id, user) ==
    {r \in FollowRequest : r.id = request_id /\ r.to_user = user /\ r.status = "pending"}

\* mutant: recipient and sender swapped
accepted_notification_to_accepter(rows, id, follow_request, user) ==
    Notification_create(rows, id, user, follow_request.from_user, "follow_accepted")

\* the notification accept_follow_request stores for the requester
accepted_notification(rows, id, follow_request, user) ==
    Notification_create(rows, id, follow_request.from_user, user, "follow_accepted")

\* accept_follow_request(request, request_id), POST by user
accept_follow_request(request_id, user) ==
    LET found == get_pending_request(request_id, user)
        respond(outcome) ==
            last' = Response("accept_follow_request", user, NoUser, request_id, outcome)
    IN
    IF found = {}
    THEN /\ respond("not_found")
         /\ UNCHANGED <<is_private, tables, counters>>
    ELSE LET follow_request == First(found) IN
         /\ next_notification_id <= MaxId
         /\ accept(FollowRequest, follow_request)
         /\ Notification' = accepted_notification(Notification, next_notification_id,
                                                  follow_request, user)
         /\ next_notification_id' = next_notification_id + 1
         /\ respond("accepted")
         /\ UNCHANGED <<is_private, next_request_id>>

\* decline_follow_request(request, request_id), POST by user
decline_follow_request(request_id, user) ==
    LET found == get_pending_request(request_id, user)
        respond(outcome) ==
            last' = Response("decline_follow_request", user, NoUser, request_id, outcome)
    IN
    IF found = {}
    THEN /\ respond("not_found")
         /\ UNCHANGED <<is_private, tables, counters>>
    ELSE /\ decline(FollowRequest, First(found))
         /\ respond("declined")
         /\ UNCHANGED <<is_private, Follow, Notification, counters>>

\* the account owner switches the account between public and private
set_is_private(user, value) ==
    /\ is_private[user] # value
    /\ is_private' = [is_private EXCEPT ![user] = value]
    /\ last' = Response("set_is_private", user, NoUser, 0, "saved")
    /\ UNCHANGED <<tables, counters>>

\* ------------------------------------------------------------------ Spec
\* primary keys a request may name: the ones handed out so far, deleted or
\* not, and one never used
Ids == 1..next_request_id

SendFollowRequest ==
    \E a \in Users, b \in Users : send_follow_request(a, b) /\ UNCHANGED <<content, messaging, calls>>
UnfollowUser ==
    \E a \in Users, b \in Users : unfollow_user(a, b) /\ UNCHANGED <<content, messaging, calls>>
AcceptFollowRequest ==
    \E id \in Ids, u \in Users : accept_follow_request(id, u) /\ UNCHANGED <<content, messaging, calls>>
DeclineFollowRequest ==
    \E id \in Ids, u \in Users : decline_follow_request(id, u) /\ UNCHANGED <<content, messaging, calls>>
SetIsPrivate ==
    \E u \in Users, v \in BOOLEAN : set_is_private(u, v) /\ UNCHANGED <<content, messaging, calls>>

Next ==
    \/ SendFollowRequest
    \/ UnfollowUser
    \/ AcceptFollowRequest
    \/ DeclineFollowRequest

\* the follow views, every account keeping the privacy setting it starts with
Spec == Init /\ [][Next]_vars

NextPrivacy == Next \/ SetIsPrivate

\* the follow views, and accounts that switch between public and private
SpecPrivacy == Init /\ [][NextPrivacy]_vars

\* FollowRequest.accept() called on any stored request, whatever its status:
\* the method itself checks nothing, so this is every call a caller can make
FollowRequestAccept ==
    \E r \in FollowRequest :
        /\ accept(FollowRequest, r)
        /\ last' = Response("FollowRequest.accept", r.from_user, r.to_user, r.id,
                            IF Follow_created(Follow, r.from_user, r.to_user)
                            THEN "created" ELSE "exists")
        /\ UNCHANGED <<is_private, Notification, next_request_id, next_notification_id>>
        /\ UNCHANGED <<content, messaging, calls>>

NextAccept == Next \/ FollowRequestAccept

\* the views, and FollowRequest.accept() called directly
SpecAccept == Init /\ [][NextAccept]_vars

\* ------------------------------------------------------------------ follow_views.py, statement by statement
\* The views run in no transaction and take no lock, so the statements of two
\* requests interleave.  A request occupies a slot of `calls` from its first
\* query to its response: pc is the statement it runs next, row the model
\* instance it has loaded (NoRow for None).
NoRow == [id |-> 0]

Call(view, pc, user, target, request_id, row) ==
    [view |-> view, pc |-> pc, user |-> user, target |-> target,
     request_id |-> request_id, row |-> row]

\* a new request is taken by the first slot that is idle
Accepts(c) == calls[c] = Idle /\ \A d \in Calls : calls[d] = Idle => c <= d

At(c, view, pc) == calls[c] # Idle /\ calls[c].view = view /\ calls[c].pc = pc

goto(c, pc) == calls' = [calls EXCEPT ![c].pc = pc] /\ UNCHANGED last

\* the view returns its response (or the exception leaves it, for the
\* outcome integrity_error) and the slot is idle again
finish(c, outcome) ==
    /\ calls' = [calls EXCEPT ![c] = Idle]
    /\ last' = Response(calls[c].view, calls[c].user, calls[c].target,
                        calls[c].request_id, outcome)

\* unique_together = ('from_user', 'to_user'): the INSERT raises IntegrityError
FollowRequest_unique_violated(rows, a, b) == RequestsOf(rows, a, b) # {}

\* send_follow_request, lines 16-27: the self check, then
\* existing_request = FollowRequest.objects.filter(...).first()
send_follow_request_read_request(c, from_user, to_user) ==
    /\ Accepts(c)
    /\ IF is_self_follow(from_user, to_user)
       THEN /\ last' = Response("send_follow_request", from_user, to_user, 0, "invalid")
            /\ UNCHANGED calls
       ELSE /\ calls' = [calls EXCEPT ![c] =
                   Call("send_follow_request", "read_following", from_user, to_user, 0,
                        IF existing_request(from_user, to_user) = {} THEN NoRow
                        ELSE First(existing_request(from_user, to_user)))]
            /\ UNCHANGED last
    /\ UNCHANGED <<is_private, tables, counters, content, messaging>>

\* send_follow_request, lines 28-48: already_following = ...exists(), and the
\* branches that follow it without another query
send_follow_request_read_following(c) ==
    LET call == calls[c] IN
    /\ At(c, "send_follow_request", "read_following")
    /\ IF already_following(call.user, call.target)
       THEN finish(c, "already_following")
       ELSE IF call.row = NoRow THEN goto(c, "create")
       ELSE IF call.row.status = "pending" THEN finish(c, "duplicate")
       ELSE IF call.row.status = "declined" THEN goto(c, "reopen")
       ELSE finish(c, "ignored")
    /\ UNCHANGED <<is_private, tables, counters, content, messaging>>

\* send_follow_request, lines 43-44: the loaded row saved as pending
send_follow_request_reopen(c) ==
    /\ At(c, "send_follow_request", "reopen")
    /\ FollowRequest' = reopen(FollowRequest, calls[c].row)
    /\ finish(c, "reopened")
    /\ UNCHANGED <<is_private, Follow, Notification, counters, content, messaging>>

\* send_follow_request, line 50: FollowRequest.objects.create(...); nothing
\* in the view catches the IntegrityError of the unique constraint
send_follow_request_create(c) ==
    LET call == calls[c]
        follow_request == [id |-> next_request_id, from_user |-> call.user,
                           to_user |-> call.target, status |-> "pending"]
    IN
    /\ At(c, "send_follow_request", "create")
    /\ IF FollowRequest_unique_violated(FollowRequest, call.user, call.target)
       THEN /\ finish(c, "integrity_error")
            /\ UNCHANGED <<FollowRequest, next_request_id>>
       ELSE /\ next_request_id <= MaxId
            /\ FollowRequest' = FollowRequest_create(FollowRequest, next_request_id,
                                                     call.user, call.target)
            /\ next_request_id' = next_request_id + 1
            /\ calls' = [calls EXCEPT ![c].row = follow_request,
                                      ![c].pc = IF auto_accept(call.target)
                                                THEN "accept_save" ELSE "notify"]
            /\ UNCHANGED last
    /\ UNCHANGED <<is_private, Follow, Notification, next_follow_id,
                   next_notification_id, content, messaging>>

\* FollowRequest.accept(), lines 66-68: self.status = 'accepted'; self.save()
FollowRequest_accept_save(c) ==
    /\ calls[c] # Idle /\ calls[c].pc = "accept_save"
    /\ FollowRequest' = FollowRequest_save(FollowRequest,
                            [calls[c].row EXCEPT !.status = "accepted"])
    /\ goto(c, "accept_follow")
    /\ UNCHANGED <<is_private, Follow, Notification, counters, content, messaging>>

\* FollowRequest.accept(), lines 71-74: Follow.objects.get_or_create(...)
FollowRequest_accept_follow(c) ==
    LET r == calls[c].row IN
    /\ calls[c] # Idle /\ calls[c].pc = "accept_follow"
    /\ Follow_created(Follow, r.from_user, r.to_user) => next_follow_id <= MaxId
    /\ Follow' = Follow_get_or_create(Follow, next_follow_id, r.from_user, r.to_user)
    /\ next_follow_id' = IF Follow_created(Follow, r.from_user, r.to_user)
                         THEN next_follow_id + 1 ELSE next_follow_id
    /\ goto(c, "notify")
    /\ UNCHANGED <<is_private, FollowRequest, Notification, next_request_id,
                   next_notification_id, content, messaging>>

\* send_follow_request, lines 62-67: Notification.objects.create(...)
send_follow_request_notify(c) ==
    LET call == calls[c] IN
    /\ At(c, "send_follow_request", "notify")
    /\ next_notification_id <= MaxId
    /\ Notification' = Notification_create(Notification, next_notification_id,
                           call.target, call.user, sent_notification_type(call.target))
    /\ next_notification_id' = next_notification_id + 1
    /\ finish(c, IF auto_accept(call.target) THEN "now_following" ELSE "request_sent")
    /\ UNCHANGED <<is_private, FollowRequest, Follow, next_request_id, next_follow_id,
                   content, messaging>>

\* accept_follow_request, line 120: get_object_or_404(FollowRequest, ...)
accept_follow_request_load(c, request_id, user) ==
    LET found == get_pending_request(request_id, user) IN
    /\ Accepts(c)
    /\ IF found = {}
       THEN /\ last' = Response("accept_follow_request", user, NoUser, request_id,
                                "not_found")
            /\ UNCHANGED calls
       ELSE /\ calls' = [calls EXCEPT ![c] =
                   Call("accept_follow_request", "accept_save", user, NoUser,
                        request_id, First(found))]
            /\ UNCHANGED last
    /\ UNCHANGED <<is_private, tables, counters, content, messaging>>

\* accept_follow_request, lines 125-130: Notification.objects.create(...)
accept_follow_request_notify(c) ==
    LET call == calls[c] IN
    /\ At(c, "accept_follow_request", "notify")
    /\ next_notification_id <= MaxId
    /\ Notification' = accepted_notification(Notification, next_notification_id,
                                             call.row, call.user)
    /\ next_notification_id' = next_notification_id + 1
    /\ finish(c, "accepted")
    /\ UNCHANGED <<is_private, FollowRequest, Follow, next_request_id, next_follow_id,
                   content, messaging>>

\* decline_follow_request, line 144: get_object_or_404(FollowRequest, ...)
decline_follow_request_load(c, request_id, user) ==
    LET found == get_pending_request(request_id, user) IN
    /\ Accepts(c)
    /\ IF found = {}
       THEN /\ last' = Response("decline_follow_request", user, NoUser, request_id,
                                "not_found")
            /\ UNCHANGED calls
       ELSE /\ calls' = [calls EXCEPT ![c] =
                   Call("decline_follow_request", "decline_save", user, NoUser,
                        request_id, First(found))]
            /\ UNCHANGED last
    /\ UNCHANGED <<is_private, tables, counters, content, messaging>>

\* FollowRequest.decline(), lines 78-80: self.status = 'declined'; self.save()
FollowRequest_decline_save(c) ==
    /\ At(c, "decline_follow_request", "decline_save")
    /\ decline(FollowRequest, calls[c].row)
    /\ finish(c, "declined")
    /\ UNCHANGED <<is_private, Follow, Notification, counters, content, messaging>>

NextFollowRace ==
    \/ \E c \in Calls, a \in Users, b \in Users : send_follow_request_read_request(c, a, b)
    \/ \E c \in Calls : send_follow_request_read_following(c)
    \/ \E c \in Calls : send_follow_request_reopen(c)
    \/ \E c \in Calls : send_follow_request_create(c)
    \/ \E c \in Calls : send_follow_request_notify(c)
    \/ \E c \in Calls, id \in Ids, u \in Users : accept_follow_request_load(c, id, u)
    \/ \E c \in Calls, id \in Ids, u \in Users : decline_follow_request_load(c, id, u)
    \/ \E c \in Calls : FollowRequest_accept_save(c)
    \/ \E c \in Calls : FollowRequest_accept_follow(c)
    \/ \E c \in Calls : accept_follow_request_notify(c)
    \/ \E c \in Calls : FollowRequest_decline_save(c)

\* send_follow_request, accept_follow_request and decline_follow_request
\* handled MaxCalls at a time, interleaved at every database statement
SpecFollowRace == Init /\ [][NextFollowRace]_vars

\* ------------------------------------------------------------------ notification_utils.py
\* Notification.objects.filter(recipient=post.user, sender=liker,
\* notification_type='like', post_id=post.id)
LikeNotifications(rows, post, liker) ==
    {n \in rows : /\ n.recipient = post.user
                  /\ n.sender = liker
                  /\ n.notification_type = "like"
                  /\ n.post_id = post.id}

\* whether create_like_notification inserts a row (and uses up a primary key)
like_notification_created(rows, post, liker) ==
    post.user # liker /\ LikeNotifications(rows, post, liker) = {}

\* mutant: the liker's own post is notified like any other
create_like_notification_to_self(rows, id, post, liker) ==
    rows \cup {Notification_row(id, post.user, liker, "like", post.id, 0)}

\* NotificationManager.create_like_notification(post, liker): nothing for the
\* owner's own like; an existing row gets is_read = False (and a new
\* created_at); otherwise a row is created
create_like_notification(rows, id, post, liker) ==
    IF post.user = liker
    THEN rows
    ELSE LET existing == LikeNotifications(rows, post, liker) IN
         IF existing # {}
         THEN LET e == First(existing) IN
              {x \in rows : x.id # e.id} \cup {[e EXCEPT !.is_read = FALSE]}
         ELSE rows \cup {Notification_row(id, post.user, liker, "like", post.id, 0)}

\* mutant: the notification outlives the like
keep_like_notification(rows, post, unliker) == rows

\* NotificationManager.delete_like_notification(post, unliker)
delete_like_notification(rows, post, unliker) ==
    rows \ LikeNotifications(rows, post, unliker)

\* whether create_comment_notification inserts a row
comment_notification_created(comment, post) == post.user # comment.user

\* NotificationManager.create_comment_notification(comment, post)
create_comment_notification(rows, id, comment, post) ==
    IF post.user = comment.user
    THEN rows
    ELSE rows \cup {Notification_row(id, post.user, comment.user, "comment",
                                     post.id, comment.id)}

\* ------------------------------------------------------------------ post_views.py
\* get_object_or_404(Post, id=post_id), as a set: empty for Http404
get_post(post_id) == {p \in Post : p.id = post_id}

\* a row of Like
Like_row(id, user, post_id) == [id |-> id, user |-> user, post |-> post_id]

\* Like.objects.filter(user=user, post=post)
LikesOf(rows, user, post_id) == {l \in rows : l.user = user /\ l.post = post_id}

\* create_post(request): POST by user; without media files no post is created
create_post(user, media_files) ==
    LET respond(id, outcome) == last' = Response("create_post", user, NoUser, id, outcome)
    IN
    IF ~media_files
    THEN /\ respond(0, "no_media")
         /\ UNCHANGED <<is_private, tables, counters, content>>
    ELSE /\ next_post_id <= MaxPosts
         /\ Post' = Post \cup {[id |-> next_post_id, user |-> user]}
         /\ next_post_id' = next_post_id + 1
         /\ respond(next_post_id, "created")
         /\ UNCHANGED <<is_private, tables, counters>>
         /\ UNCHANGED <<Like, Comment, Story, next_comment_id, next_story_id, next_like_id>>

\* toggle_like(request, post_id), POST by user
toggle_like(user, post_id) ==
    LET found == get_post(post_id)
        respond(target, outcome) ==
            last' = Response("toggle_like", user, target, post_id, outcome)
    IN
    IF found = {}
    THEN /\ respond(NoUser, "not_found")
         /\ UNCHANGED <<is_private, tables, counters, content>>
    ELSE LET post == First(found) IN
         /\ IF LikesOf(Like, user, post.id) # {}
            THEN \* get_or_create found the row: unlike
                 /\ Like' = Like \ LikesOf(Like, user, post.id)
                 /\ Notification' = delete_like_notification(Notification, post, user)
                 /\ respond(post.user, "unliked")
                 /\ UNCHANGED <<next_notification_id, next_like_id>>
            ELSE \* get_or_create inserted the row: like
                 /\ next_like_id <= MaxLikes
                 /\ like_notification_created(Notification, post, user)
                        => next_notification_id <= MaxId
                 /\ Like' = Like \cup {Like_row(next_like_id, user, post.id)}
                 /\ next_like_id' = next_like_id + 1
                 /\ Notification' = create_like_notification(Notification,
                                         next_notification_id, post, user)
                 /\ next_notification_id' =
                        IF like_notification_created(Notification, post, user)
                        THEN next_notification_id + 1 ELSE next_notification_id
                 /\ respond(post.user, "liked")
         /\ UNCHANGED <<is_private, FollowRequest, Follow, next_request_id, next_follow_id>>
         /\ UNCHANGED <<Post, Comment, Story, next_post_id, next_comment_id, next_story_id>>

\* add_comment(request, post_id), POST by user; comment_text is valid when it
\* is not empty and at most 500 characters.  Post.comments_disabled keeps its
\* default False: no view sets it.
add_comment(user, post_id, comment_text_valid) ==
    LET found == get_post(post_id)
        respond(target, outcome) ==
            last' = Response("add_comment", user, target, post_id, outcome)
    IN
    IF found = {}
    THEN /\ respond(NoUser, "not_found")
         /\ UNCHANGED <<is_private, tables, counters, content>>
    ELSE LET post == First(found)
             comment == [id |-> next_comment_id, user |-> user, post |-> post.id]
         IN
         IF ~comment_text_valid
         THEN /\ respond(post.user, "invalid")
              /\ UNCHANGED <<is_private, tables, counters, content>>
         ELSE /\ next_comment_id <= MaxComments
              /\ comment_notification_created(comment, post)
                     => next_notification_id <= MaxId
              /\ Comment' = Comment \cup {comment}
              /\ next_comment_id' = next_comment_id + 1
              /\ Notification' = create_comment_notification(Notification,
                                      next_notification_id, comment, post)
              /\ next_notification_id' =
                     IF comment_notification_created(comment, post)
                     THEN next_notification_id + 1 ELSE next_notification_id
              /\ respond(post.user, "commented")
              /\ UNCHANGED <<is_private, FollowRequest, Follow,
                             next_request_id, next_follow_id>>
              /\ UNCHANGED <<Post, Like, Story, next_post_id, next_story_id, next_like_id>>

\* delete_post(request, post_id), POST by user: the owner's delete cascades to
\* the post's likes and comments; Notification.post_id is a plain integer
delete_post(user, post_id) ==
    LET found == get_post(post_id)
        respond(target, outcome) ==
            last' = Response("delete_post", user, target, post_id, outcome)
    IN
    IF found = {}
    THEN /\ respond(NoUser, "not_found")
         /\ UNCHANGED <<is_private, tables, counters, content>>
    ELSE LET post == First(found) IN
         IF post.user # user
         THEN /\ respond(post.user, "not_owner")
              /\ UNCHANGED <<is_private, tables, counters, content>>
         ELSE /\ Post' = Post \ {post}
              /\ Like' = {l \in Like : l.post # post.id}
              /\ Comment' = {c \in Comment : c.post # post.id}
              /\ respond(post.user, "deleted")
              /\ UNCHANGED <<is_private, tables, counters>>
              /\ UNCHANGED <<Story, next_post_id, next_comment_id, next_story_id, next_like_id>>

\* ------------------------------------------------------------------ notification_views.py
get_notification_any_recipient(notification_id, user) ==
    {n \in Notification : n.id = notification_id}

\* Notification.objects.get(id=notification_id, recipient=request.user)
get_notification(notification_id, user) ==
    {n \in Notification : n.id = notification_id /\ n.recipient = user}

\* mark_notification_read(request, notification_id), POST by user
mark_notification_read(notification_id, user) ==
    LET found == get_notification(notification_id, user)
        respond(outcome) ==
            last' = Response("mark_notification_read", user, NoUser,
                             notification_id, outcome)
    IN
    IF found = {}
    THEN /\ respond("not_found")
         /\ UNCHANGED <<is_private, tables, counters, content>>
    ELSE LET notification == First(found) IN
         /\ Notification' = {x \in Notification : x.id # notification.id}
                 \cup {[notification EXCEPT !.is_read = TRUE, !.is_seen = TRUE]}
         /\ respond("read")
         /\ UNCHANGED <<is_private, FollowRequest, Follow, counters, content>>

\* NotificationManager.mark_as_read(notification_id): the row with that id,
\* whoever its recipient is, gets is_read; is_seen is not assigned.  The
\* method returns True, or False when no row has the id.
mark_as_read(notification_id) ==
    LET found == {n \in Notification : n.id = notification_id}
        respond(target, outcome) ==
            last' = Response("mark_as_read", NoUser, target, notification_id, outcome)
    IN
    IF found = {}
    THEN /\ respond(NoUser, "false")
         /\ UNCHANGED <<is_private, tables, counters, content>>
    ELSE LET notification == First(found) IN
         /\ Notification' = {x \in Notification : x.id # notification.id}
                 \cup {[notification EXCEPT !.is_read = TRUE]}
         /\ respond(notification.recipient, "true")
         /\ UNCHANGED <<is_private, FollowRequest, Follow, counters, content>>

mark_all_as_read_and_seen(rows, user) ==
    {IF n.recipient = user /\ ~n.is_seen
     THEN [n EXCEPT !.is_seen = TRUE, !.is_read = TRUE] ELSE n : n \in rows}

\* NotificationManager.mark_all_as_seen(user):
\* filter(recipient=user, is_seen=False).update(is_seen=True)
mark_all_as_seen(rows, user) ==
    {IF n.recipient = user /\ ~n.is_seen
     THEN [n EXCEPT !.is_seen = TRUE] ELSE n : n \in rows}

\* mark_all_seen(request), POST by user
mark_all_seen(user) ==
    /\ Notification' = mark_all_as_seen(Notification, user)
    /\ last' = Response("mark_all_seen", user, NoUser, 0, "success")
    /\ UNCHANGED <<is_private, FollowRequest, Follow, counters, content>>

\* mark_all_read(request), POST by user:
\* filter(recipient=request.user, is_read=False).update(is_read=True, is_seen=True)
mark_all_read(user) ==
    /\ Notification' =
           {IF n.recipient = user /\ ~n.is_read
            THEN [n EXCEPT !.is_read = TRUE, !.is_seen = TRUE] ELSE n
            : n \in Notification}
    /\ last' = Response("mark_all_read", user, NoUser, 0, "success")
    /\ UNCHANGED <<is_private, FollowRequest, Follow, counters, content>>

\* ------------------------------------------------------------------ toggle_like, statement by statement
\* the post a toggle_like call has loaded: the call keeps its id and owner
loaded_post(call) == [id |-> call.request_id, user |-> call.target]

\* toggle_like, line 14: post = get_object_or_404(Post, id=post_id)
toggle_like_get_post(c, user, post_id) ==
    LET found == get_post(post_id) IN
    /\ Accepts(c)
    /\ IF found = {}
       THEN /\ last' = Response("toggle_like", user, NoUser, post_id, "not_found")
            /\ UNCHANGED calls
       ELSE /\ calls' = [calls EXCEPT ![c] =
                   Call("toggle_like", "get_like", user, First(found).user,
                        post_id, NoRow)]
            /\ UNCHANGED last
    /\ UNCHANGED <<is_private, tables, counters, content, messaging>>

\* toggle_like, line 15, Like.objects.get_or_create: its SELECT
toggle_like_get_like(c) ==
    LET call == calls[c]
        found == LikesOf(Like, call.user, call.request_id)
    IN
    /\ At(c, "toggle_like", "get_like")
    /\ calls' = [calls EXCEPT ![c].row = IF found = {} THEN NoRow ELSE First(found),
                              ![c].pc = IF found = {} THEN "create_like"
                                        ELSE "delete_like"]
    /\ UNCHANGED <<last, is_private, tables, counters, content, messaging>>

\* toggle_like, line 15, Like.objects.get_or_create: its INSERT, which the
\* unique (user, post) constraint refuses when the row is there by now; the
\* owner's own like creates no notification and needs no more queries
toggle_like_create_like(c) ==
    LET call == calls[c] IN
    /\ At(c, "toggle_like", "create_like")
    /\ IF LikesOf(Like, call.user, call.request_id) # {}
       THEN /\ goto(c, "get_like_again")
            /\ UNCHANGED <<Like, next_like_id>>
       ELSE /\ next_like_id <= MaxLikes
            /\ Like' = Like \cup {Like_row(next_like_id, call.user, call.request_id)}
            /\ next_like_id' = next_like_id + 1
            /\ IF call.target = call.user
               THEN finish(c, "liked")
               ELSE goto(c, "filter_notification")
    /\ UNCHANGED <<is_private, tables, counters, messaging>>
    /\ UNCHANGED <<Post, Comment, Story, next_post_id, next_comment_id, next_story_id>>

\* toggle_like, line 15, Like.objects.get_or_create: the SELECT it repeats
\* after an IntegrityError; it raises the error when the row is gone again
toggle_like_get_like_again(c) ==
    LET call == calls[c]
        found == LikesOf(Like, call.user, call.request_id)
    IN
    /\ At(c, "toggle_like", "get_like_again")
    /\ IF found = {}
       THEN finish(c, "integrity_error")
       ELSE /\ calls' = [calls EXCEPT ![c].row = First(found), ![c].pc = "delete_like"]
            /\ UNCHANGED last
    /\ UNCHANGED <<is_private, tables, counters, content, messaging>>

\* toggle_like, line 19: like.delete(), by primary key
toggle_like_delete_like(c) ==
    /\ At(c, "toggle_like", "delete_like")
    /\ Like' = {l \in Like : l.id # calls[c].row.id}
    /\ goto(c, "delete_notification")
    /\ UNCHANGED <<is_private, tables, counters, messaging, next_like_id>>
    /\ UNCHANGED <<Post, Comment, Story, next_post_id, next_comment_id, next_story_id>>

\* toggle_like, line 21: NotificationManager.delete_like_notification
toggle_like_delete_notification(c) ==
    LET call == calls[c] IN
    /\ At(c, "toggle_like", "delete_notification")
    /\ Notification' = delete_like_notification(Notification, loaded_post(call), call.user)
    /\ finish(c, "unliked")
    /\ UNCHANGED <<is_private, FollowRequest, Follow, counters, content, messaging>>

\* create_like_notification, lines 15-20: existing = Notification.objects.filter(...).first()
toggle_like_filter_notification(c) ==
    LET call == calls[c]
        existing == LikeNotifications(Notification, loaded_post(call), call.user)
    IN
    /\ At(c, "toggle_like", "filter_notification")
    /\ calls' = [calls EXCEPT ![c].row = IF existing = {} THEN NoRow ELSE First(existing),
                              ![c].pc = IF existing = {} THEN "create_notification"
                                        ELSE "save_notification"]
    /\ UNCHANGED <<last, is_private, tables, counters, content, messaging>>

\* create_like_notification, lines 22-27: existing.is_read = False;
\* existing.save(), which stores the loaded row under its primary key
toggle_like_save_notification(c) ==
    LET existing == calls[c].row IN
    /\ At(c, "toggle_like", "save_notification")
    /\ Notification' = {x \in Notification : x.id # existing.id}
                          \cup {[existing EXCEPT !.is_read = FALSE]}
    /\ finish(c, "liked")
    /\ UNCHANGED <<is_private, FollowRequest, Follow, counters, content, messaging>>

\* create_like_notification, lines 29-35: Notification.objects.create(...)
toggle_like_create_notification(c) ==
    LET call == calls[c] IN
    /\ At(c, "toggle_like", "create_notification")
    /\ next_notification_id <= MaxId
    /\ Notification' = Notification \cup
           {Notification_row(next_notification_id, call.target, call.user, "like",
                             call.request_id, 0)}
    /\ next_notification_id' = next_notification_id + 1
    /\ finish(c, "liked")
    /\ UNCHANGED <<is_private, FollowRequest, Follow, next_request_id, next_follow_id,
                   content, messaging>>

\* primary keys a request may name in Post and in Notification
PostIds == 1..next_post_id
NotificationIds == 1..next_notification_id

CreatePost ==
    \E u \in Users, media_files \in BOOLEAN : create_post(u, media_files) /\ UNCHANGED <<messaging, calls>>
ToggleLike ==
    \E u \in Users, id \in PostIds : toggle_like(u, id) /\ UNCHANGED <<messaging, calls>>
AddComment ==
    \E u \in Users, id \in PostIds, valid \in BOOLEAN :
        add_comment(u, id, valid) /\ UNCHANGED <<messaging, calls>>
DeletePost ==
    \E u \in Users, id \in PostIds : delete_post(u, id) /\ UNCHANGED <<messaging, calls>>
MarkNotificationRead ==
    \E id \in NotificationIds, u \in Users :
        mark_notification_read(id, u) /\ UNCHANGED <<messaging, calls>>

MarkAllSeen == \E u \in Users : mark_all_seen(u) /\ UNCHANGED <<messaging, calls>>
MarkAllRead == \E u \in Users : mark_all_read(u) /\ UNCHANGED <<messaging, calls>>
MarkAsRead ==
    \E id \in NotificationIds : mark_as_read(id) /\ UNCHANGED <<messaging, calls>>

NextRead ==
    \/ SendFollowRequest
    \/ AcceptFollowRequest
    \/ MarkNotificationRead
    \/ MarkAllSeen
    \/ MarkAllRead
    \/ MarkAsRead

\* the two follow views that store notifications, one for each side of a
\* request, with the views of notification_views.py and
\* NotificationManager.mark_as_read
SpecRead == Init /\ [][NextRead]_vars

NextLikes ==
    \/ CreatePost
    \/ ToggleLike
    \/ DeletePost
    \/ MarkNotificationRead

\* posts, their likes and the like notifications
SpecLikes == Init /\ [][NextLikes]_vars

NextNotify ==
    \/ Next
    \/ CreatePost
    \/ ToggleLike
    \/ AddComment

\* every view that stores a Notification (send_follow_request,
\* accept_follow_request, toggle_like, add_comment) with the views that lead
\* to them
SpecNotify == Init /\ [][NextNotify]_vars

NextLikeRace ==
    \/ CreatePost
    \/ \E c \in Calls, u \in Users, id \in PostIds : toggle_like_get_post(c, u, id)
    \/ \E c \in Calls : toggle_like_get_like(c)
    \/ \E c \in Calls : toggle_like_create_like(c)
    \/ \E c \in Calls : toggle_like_get_like_again(c)
    \/ \E c \in Calls : toggle_like_delete_like(c)
    \/ \E c \in Calls : toggle_like_delete_notification(c)
    \/ \E c \in Calls : toggle_like_filter_notification(c)
    \/ \E c \in Calls : toggle_like_save_notification(c)
    \/ \E c \in Calls : toggle_like_create_notification(c)

\* toggle_like handled MaxCalls at a time, interleaved at every database
\* statement, on the posts create_post stores
SpecLikeRace == Init /\ [][NextLikeRace]_vars

\* ------------------------------------------------------------------ message_models.py, message_views.py
\* Thread.objects.filter(participants=user1, is_group=False).filter(participants=user2);
\* no view makes a group thread
ThreadsOf(rows, user1, user2) ==
    {t \in rows : user1 \in t.participants /\ user2 \in t.participants}

\* Thread.get_or_create_thread(user1, user2) adds a row
Thread_created(rows, user1, user2) == ThreadsOf(rows, user1, user2) = {}

\* Thread.get_or_create_thread(user1, user2): the table afterwards
get_or_create_thread(rows, id, user1, user2) ==
    IF Thread_created(rows, user1, user2)
    THEN rows \cup {[id |-> id, participants |-> {user1, user2}]}
    ELSE rows

\* thread.get_other_participant(user): participants.exclude(id=user.id).first()
get_other_participant(thread, user) ==
    IF thread.participants \ {user} = {} THEN NoUser
    ELSE CHOOSE u \in thread.participants \ {user} : TRUE

\* start_chat(request, username), by user
start_chat(user, username) ==
    LET respond(request_id, outcome) ==
            last' = Response("start_chat", user, username, request_id, outcome)
    IN
    IF username = user
    THEN /\ respond(0, "invalid")
         /\ UNCHANGED messaging
    ELSE /\ Thread_created(Thread, user, username) => next_thread_id <= MaxId
         /\ Thread' = get_or_create_thread(Thread, next_thread_id, user, username)
         /\ next_thread_id' = IF Thread_created(Thread, user, username)
                              THEN next_thread_id + 1 ELSE next_thread_id
         /\ respond(First(ThreadsOf(Thread', user, username)).id,
                    IF Thread_created(Thread, user, username) THEN "started" ELSE "opened")
         /\ UNCHANGED <<Message, next_message_id>>

\* send_message(request, thread_id), POST by user; the message is valid when
\* it has a text or an attachment.  The view stores the Message and answers;
\* it calls nothing of notification_utils.py.
send_message(user, thread_id, message_valid) ==
    LET found == {t \in Thread : t.id = thread_id /\ user \in t.participants}
        respond(target, outcome) ==
            last' = Response("send_message", user, target, thread_id, outcome)
    IN
    IF found = {}
    THEN /\ respond(NoUser, "not_found")
         /\ UNCHANGED messaging
    ELSE LET thread == First(found) IN
         IF ~message_valid
         THEN /\ respond(get_other_participant(thread, user), "empty")
              /\ UNCHANGED messaging
         ELSE /\ next_message_id <= MaxId
              /\ Message' = Message \cup
                     {[id |-> next_message_id, thread |-> thread.id, sender |-> user]}
              /\ next_message_id' = next_message_id + 1
              /\ respond(get_other_participant(thread, user), "sent")
              /\ UNCHANGED <<Thread, next_thread_id>>

\* thread ids a request may name
ThreadIds == 1..next_thread_id

StartChat ==
    \E u \in Users, username \in Users :
        start_chat(u, username) /\ UNCHANGED <<is_private, tables, counters, content, calls>>
SendMessage ==
    \E u \in Users, id \in ThreadIds, valid \in BOOLEAN :
        send_message(u, id, valid) /\ UNCHANGED <<is_private, tables, counters, content, calls>>

NextMessages ==
    \/ StartChat
    \/ SendMessage
    \/ SendFollowRequest

\* direct messages between the accounts, next to a view that does notify
SpecMessages == Init /\ [][NextMessages]_vars

\* ------------------------------------------------------------------ the pages
\* What a GET renders, as the rows its context or JSON holds.  Every story is
\* active: a story expires 24 hours after it is created and the model has no
\* clock.  The StoryView and RecentSearch rows some pages record are not part
\* of the model: no view below reads them.

\* the response of a view that computes can_view
Page(op, user, target, request_id, outcome, can_view, users, posts, stories) ==
    [op |-> op, user |-> user, target |-> target, request_id |-> request_id,
     outcome |-> outcome, can_view |-> can_view,
     users |-> users, posts |-> posts, stories |-> stories]

\* the response of a view that computes no can_view
Listing(op, user, target, request_id, outcome, posts, stories) ==
    [op |-> op, user |-> user, target |-> target, request_id |-> request_id,
     outcome |-> outcome, users |-> {}, posts |-> posts, stories |-> stories]

\* Post.objects.filter(user=user)
PostsOf(user) == {p \in Post : p.user = user}

\* Story.get_user_active_stories(user)
get_user_active_stories(user) == {st \in Story : st.user = user}

\* User.objects.filter(followers__follower=user): the users `user` follows
following_users(user) == {f.following : f \in {x \in Follow : x.follower = user}}

\* create_story_view(request), POST by user with a media file that is or is
\* not acceptable (missing, too large, wrong extension)
create_story_view(user, media_file_valid) ==
    LET respond(id, outcome) ==
            last' = Response("create_story_view", user, NoUser, id, outcome)
    IN
    IF ~media_file_valid
    THEN /\ respond(0, "invalid")
         /\ UNCHANGED <<is_private, tables, counters, content>>
    ELSE /\ next_story_id <= MaxStories
         /\ Story' = Story \cup {[id |-> next_story_id, user |-> user]}
         /\ next_story_id' = next_story_id + 1
         /\ respond(next_story_id, "created")
         /\ UNCHANGED <<is_private, tables, counters>>
         /\ UNCHANGED <<Post, Like, Comment, next_post_id, next_comment_id, next_like_id>>

\* followers_view: can_view = user == request.user or not
\* user.profile.is_private or Follow.is_following(request.user, user)
followers_view_can_view(request_user, user) ==
    \/ user = request_user
    \/ ~is_private[user]
    \/ is_following(request_user, user)

\* following_view: can_view
following_view_can_view(request_user, user) ==
    \/ user = request_user
    \/ ~is_private[user]
    \/ is_following(request_user, user)

\* profile_view: can_view_profile = is_own_profile or not
\* profile_user.profile.is_private or is_following, where is_following is
\* False on the own profile
can_view_profile(request_user, profile_user) ==
    LET is_own_profile == request_user = profile_user
        is_following_ == IF ~is_own_profile
                         THEN is_following(request_user, profile_user) ELSE FALSE
    IN  \/ is_own_profile
        \/ ~is_private[profile_user]
        \/ is_following_

\* story_viewer: can_view
story_viewer_can_view(request_user, user) ==
    \/ user = request_user
    \/ ~is_private[user]
    \/ is_following(request_user, user)

\* mutant: followers of a private account are turned away too
get_stories_data_public_only(request_user, user) ==
    user = request_user \/ ~is_private[user]

\* get_stories_data: can_view
get_stories_data_can_view(request_user, user) ==
    \/ user = request_user
    \/ ~is_private[user]
    \/ is_following(request_user, user)

\* followers_view(request, username), GET by request_user
followers_view(request_user, user) ==
    LET can_view == followers_view_can_view(request_user, user)
        followers == {f.follower : f \in {x \in Follow : x.following = user}}
    IN
    /\ last' = IF ~can_view
               THEN Page("followers_view", request_user, user, 0, "denied",
                         can_view, {}, {}, {})
               ELSE Page("followers_view", request_user, user, 0, "shown",
                         can_view, followers, {}, {})
    /\ UNCHANGED <<is_private, tables, counters, content>>

\* following_view(request, username), GET by request_user
following_view(request_user, user) ==
    LET can_view == following_view_can_view(request_user, user)
        following == {f.following : f \in {x \in Follow : x.follower = user}}
    IN
    /\ last' = IF ~can_view
               THEN Page("following_view", request_user, user, 0, "denied",
                         can_view, {}, {}, {})
               ELSE Page("following_view", request_user, user, 0, "shown",
                         can_view, following, {}, {})
    /\ UNCHANGED <<is_private, tables, counters, content>>

\* profile_view(request, username), GET by request_user: user_stories is put
\* in the context whatever can_view_profile is, user_posts only when it holds
profile_view(request_user, profile_user) ==
    LET can_view == can_view_profile(request_user, profile_user)
        user_stories == get_user_active_stories(profile_user)
        user_posts_ == IF can_view THEN PostsOf(profile_user) ELSE {}
    IN
    /\ last' = Page("profile_view", request_user, profile_user, 0, "shown",
                    can_view, {}, user_posts_, user_stories)
    /\ UNCHANGED <<is_private, tables, counters, content>>

\* story_viewer(request, username), GET by request_user
story_viewer(request_user, user) ==
    LET stories == get_user_active_stories(user)
        can_view == story_viewer_can_view(request_user, user)
    IN
    /\ last' = IF stories = {}
               THEN Listing("story_viewer", request_user, user, 0, "no_stories", {}, {})
               ELSE IF ~can_view
               THEN Page("story_viewer", request_user, user, 0, "denied",
                         can_view, {}, {}, {})
               ELSE Page("story_viewer", request_user, user, 0, "shown",
                         can_view, {}, {}, stories)
    /\ UNCHANGED <<is_private, tables, counters, content>>

\* get_stories_data(request, username), GET by request_user
get_stories_data(request_user, user) ==
    LET stories == get_user_active_stories(user)
        can_view == get_stories_data_can_view(request_user, user)
    IN
    /\ last' = IF ~can_view
               THEN Page("get_stories_data", request_user, user, 0, "denied",
                         can_view, {}, {}, {})
               ELSE Page("get_stories_data", request_user, user, 0, "shown",
                         can_view, {}, {}, stories)
    /\ UNCHANGED <<is_private, tables, counters, content>>

\* explore_view(request): Post.objects.exclude(user=request.user)
explore_view(request_user) ==
    /\ last' = Listing("explore_view", request_user, NoUser, 0, "shown",
                       {p \in Post : p.user # request_user}, {})
    /\ UNCHANGED <<is_private, tables, counters, content>>

\* user_posts(request, username): Post.objects.filter(user=user)
user_posts(request_user, user) ==
    /\ last' = Listing("user_posts", request_user, user, 0, "shown", PostsOf(user), {})
    /\ UNCHANGED <<is_private, tables, counters, content>>

\* post_detail(request, post_id): get_object_or_404(Post, id=post_id)
post_detail(request_user, post_id) ==
    LET found == get_post(post_id) IN
    /\ last' = IF found = {}
               THEN Listing("post_detail", request_user, NoUser, post_id,
                            "not_found", {}, {})
               ELSE Listing("post_detail", request_user, First(found).user, post_id,
                            "shown", found, {})
    /\ UNCHANGED <<is_private, tables, counters, content>>

\* Post.get_feed_posts(user): posts of the users `user` follows, and own posts
get_feed_posts(user) ==
    {p \in Post : p.user \in following_users(user) \/ p.user = user}

\* home_view(request): the feed, and the stories of the users followed
home_view(request_user) ==
    /\ last' = Listing("home_view", request_user, NoUser, 0, "shown",
                       get_feed_posts(request_user),
                       {st \in Story : st.user \in following_users(request_user)})
    /\ UNCHANGED <<is_private, tables, counters, content>>

\* story_home_view(request): own stories and the stories of the users followed
story_home_view(request_user) ==
    /\ last' = Listing("story_home_view", request_user, NoUser, 0, "shown", {},
                       get_user_active_stories(request_user)
                       \cup {st \in Story : st.user \in following_users(request_user)})
    /\ UNCHANGED <<is_private, tables, counters, content>>

CreateStory ==
    \E u \in Users, valid \in BOOLEAN : create_story_view(u, valid) /\ UNCHANGED <<messaging, calls>>
FollowersView ==
    \E v \in Users, u \in Users : followers_view(v, u) /\ UNCHANGED <<messaging, calls>>
FollowingView ==
    \E v \in Users, u \in Users : following_view(v, u) /\ UNCHANGED <<messaging, calls>>
ProfileView ==
    \E v \in Users, u \in Users : profile_view(v, u) /\ UNCHANGED <<messaging, calls>>
StoryViewer ==
    \E v \in Users, u \in Users : story_viewer(v, u) /\ UNCHANGED <<messaging, calls>>
GetStoriesData ==
    \E v \in Users, u \in Users : get_stories_data(v, u) /\ UNCHANGED <<messaging, calls>>
ExploreView ==
    \E v \in Users : explore_view(v) /\ UNCHANGED <<messaging, calls>>
UserPosts ==
    \E v \in Users, u \in Users : user_posts(v, u) /\ UNCHANGED <<messaging, calls>>
PostDetail ==
    \E v \in Users, id \in PostIds : post_detail(v, id) /\ UNCHANGED <<messaging, calls>>
HomeView ==
    \E v \in Users : home_view(v) /\ UNCHANGED <<messaging, calls>>
StoryHomeView ==
    \E v \in Users : story_home_view(v) /\ UNCHANGED <<messaging, calls>>

NextVisibility ==
    \/ Next
    \/ CreateStory
    \/ FollowersView
    \/ FollowingView
    \/ ProfileView
    \/ StoryViewer
    \/ GetStoriesData

\* the follow views, and the pages that decide whether the viewer may see
SpecVisibility == Init /\ [][NextVisibility]_vars

NextContent ==
    \/ Next
    \/ CreatePost
    \/ CreateStory
    \/ ExploreView
    \/ UserPosts
    \/ PostDetail
    \/ ProfileView
    \/ HomeView
    \/ StoryHomeView
    \/ StoryViewer
    \/ GetStoriesData

\* the follow views, and the pages that list posts or stories
SpecContent == Init /\ [][NextContent]_vars

\* ------------------------------------------------------------------ Follow.get_mutual_followers
\* the accounts of the graphs get_mutual_followers is applied to: a, b and a
\* third account for them to follow or be followed by
Accounts == Users \cup {"carol"}

\* the ordered pairs of distinct accounts, numbered in a fixed order
Pairs == {p \in Accounts \X Accounts : p[1] # p[2]}
PairId ==
    CHOOSE f \in [Pairs -> 1..Cardinality(Pairs)] :
        \A p \in Pairs, q \in Pairs : p # q => f[p] # f[q]

\* the tables after the pairs of `edges` each sent a follow request to a
\* public account (auto-accepted, one new_follower notification each)
FollowedPairs(edges) ==
    /\ FollowRequest = {[id |-> PairId[p], from_user |-> p[1], to_user |-> p[2],
                         status |-> "accepted"] : p \in edges}
    /\ Follow = {[id |-> PairId[p], follower |-> p[1], following |-> p[2]] : p \in edges}
    /\ Notification = {Notification_row(PairId[p], p[2], p[1], "new_follower", 0, 0) :
                          p \in edges}
    /\ next_request_id = Cardinality(Pairs) + 1
    /\ next_follow_id = Cardinality(Pairs) + 1
    /\ next_notification_id = Cardinality(Pairs) + 1

\* Follow.get_mutual_followers(user1, user2):
\*   user1_following = filter(follower=user1).values_list('following')
\*   user2_followers = filter(following=user2).values_list('follower')
\*   User.objects.filter(id__in=user1_following).filter(id__in=user2_followers)
get_mutual_followers(user1, user2) ==
    LET user1_following == {f.following : f \in {x \in Follow : x.follower = user1}}
        user2_followers == {f.follower : f \in {x \in Follow : x.following = user2}}
    IN  {u \in Accounts : u \in user1_following /\ u \in user2_followers}

\* every follower graph over Accounts, all accounts public
InitGraph ==
    /\ is_private = [u \in Accounts |-> FALSE]
    /\ \E edges \in SUBSET Pairs : FollowedPairs(edges)
    /\ Post = {} /\ Like = {} /\ Comment = {} /\ Story = {}
    /\ next_post_id = 1 /\ next_comment_id = 1 /\ next_story_id = 1
    /\ next_like_id = 1
    /\ Thread = {} /\ Message = {}
    /\ next_thread_id = 1 /\ next_message_id = 1
    /\ calls = [c \in Calls |-> Idle]
    /\ last = Response("none", NoUser, NoUser, 0, "none")

\* a call of Follow.get_mutual_followers(user1, user2) and the users it returns
GetMutualFollowers ==
    \E user1 \in Accounts, user2 \in Accounts :
        /\ last' = [op |-> "get_mutual_followers", user |-> user1, target |-> user2,
                    request_id |-> 0, outcome |-> "returned",
                    users |-> get_mutual_followers(user1, user2)]
        /\ UNCHANGED <<is_private, tables, counters, content, messaging, calls>>

NextMutual == GetMutualFollowers

\* get_mutual_followers applied to every graph and every pair of accounts
SpecMutual == InitGraph /\ [][NextMutual]_vars

\* ------------------------------------------------------------------ claims
\* Notification rows of one recipient, sender and type
NotificationsOf(rows, recipient, sender, types) ==
    {n \in rows : /\ n.recipient = recipient
                  /\ n.sender = sender
                  /\ n.notification_type \in types}

\* the step just taken is the view `op` called by `user`
Handled(op) == last'.op = op

\* a "new follower" notification: the enumeration's name for it, or the one
\* send_follow_request stores
NewFollowerTypes == {"follow", "new_follower"}

\* exactly one row was inserted in Notification, with these fields
OneNotificationAdded(recipient, sender, type) ==
    /\ Notification \subseteq Notification'
    /\ \E n \in Notification' \ Notification :
          /\ Notification' = Notification \cup {n}
          /\ n.recipient = recipient
          /\ n.sender = sender
          /\ n.notification_type = type

\* C1: after send_follow_request(a, b) with a # b and b public, Follow(a->b)
\* exists and exactly one new-follower notification from a to b exists.
C1_PublicSendFollowsWithOneNotification ==
    (/\ last.op = "send_follow_request"
     /\ last.user # last.target
     /\ ~is_private[last.target])
    => /\ is_following(last.user, last.target)
       /\ Cardinality(NotificationsOf(Notification, last.target, last.user,
                                      NewFollowerTypes)) = 1

\* C2 as stated: after send_follow_request(a, b) with a # b and b private,
\* Follow(a->b) does not exist, a pending request exists and exactly one
\* follow-request notification from a to b exists.
C2_PrivateSendAsStated ==
    (/\ last.op = "send_follow_request"
     /\ last.user # last.target
     /\ is_private[last.target])
    => /\ ~is_following(last.user, last.target)
       /\ \E r \in RequestsOf(FollowRequest, last.user, last.target) :
             r.status = "pending"
       /\ Cardinality(NotificationsOf(Notification, last.target, last.user,
                                      {"follow_request"})) = 1

\* C2, amended: when a # b, b is private and a does not follow b beforehand,
\* after send_follow_request(a, b) a still does not follow b and a pending
\* FollowRequest(a, b) exists; the call adds exactly one follow_request
\* notification (recipient b, sender a) when no FollowRequest(a, b) existed
\* beforehand, and no notification otherwise.
C2_PrivateSendLeavesPending ==
    [][\A a \in Users, b \in Users :
        (/\ Handled("send_follow_request")
         /\ last'.user = a /\ last'.target = b
         /\ a # b
         /\ is_private[b]
         /\ ~is_following(a, b))
        => /\ EdgesOf(Follow', a, b) = {}
           /\ \E r \in RequestsOf(FollowRequest', a, b) : r.status = "pending"
           /\ IF RequestsOf(FollowRequest, a, b) = {}
              THEN OneNotificationAdded(b, a, "follow_request")
              ELSE Notification' = Notification]_vars

\* a new request to a private account is pending and has notified the target
C2_Witness ==
    /\ last.op = "send_follow_request"
    /\ last.outcome = "request_sent"
    /\ is_private[last.target]
    /\ ~is_following(last.user, last.target)
    /\ \E r \in RequestsOf(FollowRequest, last.user, last.target) : r.status = "pending"
    /\ NotificationsOf(Notification, last.target, last.user, {"follow_request"}) # {}

\* C3: send_follow_request(a, a) ends in the invalid-operation outcome and
\* changes no Follow, FollowRequest or Notification row.
C3_SelfFollowRejected ==
    [][(Handled("send_follow_request") /\ last'.user = last'.target)
        => (last'.outcome = "invalid" /\ UNCHANGED tables)]_vars

\* a self-follow was rejected in a state that holds rows to lose
C3_Witness ==
    /\ last.op = "send_follow_request"
    /\ last.user = last.target
    /\ last.outcome = "invalid"
    /\ FollowRequest # {} /\ Follow # {} /\ Notification # {}

\* C4: there is at most one FollowRequest row per ordered (from_user, to_user)
\* pair, whatever its status.
C4_OneRequestPerPair ==
    \A a \in Users, b \in Users : Cardinality(RequestsOf(FollowRequest, a, b)) <= 1

\* a declined request was sent again, and a pair that was followed, unfollowed
\* and requested anew: still one row each
C4_Witness ==
    /\ last.op = "send_follow_request"
    /\ last.outcome = "reopened"
    /\ next_request_id > 2
    /\ Cardinality(RequestsOf(FollowRequest, last.user, last.target)) = 1

\* C5: Follow has no self-edge and at most one edge per ordered pair, and
\* FollowRequest.accept() on a request whose edge exists adds no second edge.
C5_NoSelfEdgeOneEdgePerPair ==
    /\ \A f \in Follow : f.follower # f.following
    /\ \A a \in Users, b \in Users : Cardinality(EdgesOf(Follow, a, b)) <= 1

\* accept() ran on a request whose edge already existed
C5_Witness ==
    /\ last.op = "FollowRequest.accept"
    /\ last.outcome = "exists"
    /\ Cardinality(EdgesOf(Follow, last.user, last.target)) = 1

\* C6: when a has a declined FollowRequest to b, send_follow_request(a, b)
\* reopens that record: same id, status pending, and one row for (a, b)
\* before and after.
C6_DeclinedRequestReopened ==
    [][\A a \in Users, b \in Users :
        (/\ Handled("send_follow_request")
         /\ last'.user = a /\ last'.target = b
         /\ \E r \in RequestsOf(FollowRequest, a, b) : r.status = "declined")
        => /\ Cardinality(RequestsOf(FollowRequest, a, b)) = 1
           /\ Cardinality(RequestsOf(FollowRequest', a, b)) = 1
           /\ \A r \in RequestsOf(FollowRequest, a, b) :
                 [r EXCEPT !.status = "pending"] \in FollowRequest'
           /\ last'.outcome = "reopened"]_vars

\* a declined request was sent again and is pending under its old id, below
\* the next id the table would hand out
C6_Witness ==
    /\ last.op = "send_follow_request"
    /\ last.outcome = "reopened"
    /\ \E r \in RequestsOf(FollowRequest, last.user, last.target) :
          r.status = "pending" /\ r.id < next_request_id

\* C7: when send_follow_request(a, b) reopens a declined request and b is
\* public, the request is accepted and Follow(a->b) exists at the end of that
\* operation.
C7_ReopenAutoAccepts ==
    (/\ last.op = "send_follow_request"
     /\ last.outcome = "reopened"
     /\ ~is_private[last.target])
    => /\ is_following(last.user, last.target)
       /\ \E r \in RequestsOf(FollowRequest, last.user, last.target) :
             r.status = "accepted"

\* C8: send_follow_request(a, b) changes no Follow, FollowRequest or
\* Notification row when Follow(a->b) exists (already-following outcome) or a
\* pending FollowRequest(a, b) exists (duplicate outcome).
C8_NoChangeWhenFollowingOrPending ==
    [][\A a \in Users, b \in Users :
        (/\ Handled("send_follow_request")
         /\ last'.user = a /\ last'.target = b)
        => /\ is_following(a, b)
              => (UNCHANGED tables /\ last'.outcome = "already_following")
           /\ (/\ ~is_following(a, b)
               /\ \E r \in RequestsOf(FollowRequest, a, b) : r.status = "pending")
              => (UNCHANGED tables /\ last'.outcome = "duplicate")]_vars

\* a request was sent while the same request was pending
C8_Witness ==
    /\ last.op = "send_follow_request"
    /\ last.outcome = "duplicate"
    /\ \E r \in RequestsOf(FollowRequest, last.user, last.target) : r.status = "pending"
    /\ ~is_following(last.user, last.target)

\* C9: accept_follow_request(id, u) and decline_follow_request(id, u) end in
\* not-found and change no row unless a FollowRequest with that id exists, its
\* to_user is u and its status is pending.
C9_AcceptDeclineNotFound ==
    [][(/\ (Handled("accept_follow_request") \/ Handled("decline_follow_request"))
        /\ ~\E r \in FollowRequest : /\ r.id = last'.request_id
                                     /\ r.to_user = last'.user
                                     /\ r.status = "pending")
        => (last'.outcome = "not_found" /\ UNCHANGED tables)]_vars

\* the requester tried to accept or decline the pending request they sent
C9_Witness ==
    /\ last.op \in {"accept_follow_request", "decline_follow_request"}
    /\ last.outcome = "not_found"
    /\ \E r \in FollowRequest : /\ r.id = last.request_id
                                /\ r.from_user = last.user
                                /\ r.to_user # last.user
                                /\ r.status = "pending"

\* C10: accept_follow_request on a pending FollowRequest(a, b) by b sets its
\* status to accepted, makes Follow(a->b) exist, and adds exactly one
\* follow_accepted notification with recipient a and sender b.
C10_AcceptFollowsAndNotifies ==
    [][\A r \in FollowRequest :
        (/\ Handled("accept_follow_request")
         /\ r.id = last'.request_id
         /\ r.to_user = last'.user
         /\ r.status = "pending")
        => /\ last'.outcome = "accepted"
           /\ [r EXCEPT !.status = "accepted"] \in FollowRequest'
           /\ r \notin FollowRequest'
           /\ Cardinality(EdgesOf(Follow', r.from_user, r.to_user)) = 1
           /\ OneNotificationAdded(r.from_user, r.to_user, "follow_accepted")]_vars

\* a request was accepted by its target: the edge and the notification exist
C10_Witness ==
    /\ last.op = "accept_follow_request"
    /\ last.outcome = "accepted"
    /\ \E r \in FollowRequest :
          /\ r.id = last.request_id
          /\ r.status = "accepted"
          /\ r.to_user = last.user
          /\ is_following(r.from_user, r.to_user)
          /\ NotificationsOf(Notification, r.from_user, r.to_user,
                             {"follow_accepted"}) # {}

\* C11: a successful decline_follow_request on a pending FollowRequest(a, b)
\* sets that request's status to declined and changes nothing else: Follow and
\* Notification are unchanged and every other FollowRequest row is as it was.
C11_DeclineChangesOnlyThatRequest ==
    [][\A r \in FollowRequest :
        (/\ Handled("decline_follow_request")
         /\ r.id = last'.request_id
         /\ r.to_user = last'.user
         /\ r.status = "pending")
        => /\ last'.outcome = "declined"
           /\ FollowRequest' = (FollowRequest \ {r})
                                  \cup {[r EXCEPT !.status = "declined"]}
           /\ Follow' = Follow
           /\ Notification' = Notification]_vars

\* a request was declined while the request in the other direction was
\* pending, and it still is; notifications exist
C11_Witness ==
    /\ last.op = "decline_follow_request"
    /\ last.outcome = "declined"
    /\ \E r \in FollowRequest : r.id = last.request_id /\ r.status = "declined"
    /\ \E r \in FollowRequest : r.id # last.request_id /\ r.status = "pending"
    /\ Notification # {}

\* C12 as stated: after unfollow_user(a, b), Follow(a->b) does not exist and no
\* accepted FollowRequest(a, b) exists, and a send_follow_request(a, b) that
\* follows it (a # b) creates a FollowRequest row under a fresh id.
C12_UnfollowThenSendCreatesRequest ==
    [][\A a \in Users, b \in Users :
        /\ (Handled("unfollow_user") /\ last'.user = a /\ last'.target = b)
           => /\ EdgesOf(Follow', a, b) = {}
              /\ \A r \in RequestsOf(FollowRequest', a, b) : r.status # "accepted"
        /\ (/\ last.op = "unfollow_user" /\ last.user = a /\ last.target = b
            /\ a # b
            /\ Handled("send_follow_request")
            /\ last'.user = a /\ last'.target = b)
           => /\ last'.outcome \in {"now_following", "request_sent"}
              /\ \E r \in RequestsOf(FollowRequest', a, b) :
                    r.id = next_request_id /\ r \notin FollowRequest]_vars

\* C12, amended: after unfollow_user(a, b), Follow(a->b) does not exist and no
\* accepted FollowRequest(a, b) exists; when the unfollow removed the edge, no
\* FollowRequest(a, b) is left and a send_follow_request(a, b) that follows it
\* creates a row under a fresh id; when it found no edge, the send that follows
\* is never stopped by an accepted record.
C12_UnfollowClearsEdgeAndAcceptedRequest ==
    [][\A a \in Users, b \in Users :
        /\ (Handled("unfollow_user") /\ last'.user = a /\ last'.target = b)
           => /\ EdgesOf(Follow', a, b) = {}
              /\ \A r \in RequestsOf(FollowRequest', a, b) : r.status # "accepted"
              /\ last'.outcome = "unfollowed"
                 => RequestsOf(FollowRequest', a, b) = {}
        /\ (/\ last.op = "unfollow_user" /\ last.user = a /\ last.target = b
            /\ a # b
            /\ Handled("send_follow_request")
            /\ last'.user = a /\ last'.target = b)
           => IF last.outcome = "unfollowed"
              THEN /\ last'.outcome \in {"now_following", "request_sent"}
                   /\ \E r \in RequestsOf(FollowRequest', a, b) :
                         r.id = next_request_id /\ r \notin FollowRequest
              ELSE last'.outcome \in {"now_following", "request_sent",
                                      "duplicate", "reopened"}]_vars

\* a followed b, unfollowed, and sent again: the new request has a new id
C12_Witness ==
    /\ last.op = "send_follow_request"
    /\ last.outcome \in {"now_following", "request_sent"}
    /\ next_request_id > 2
    /\ \E r \in RequestsOf(FollowRequest, last.user, last.target) : r.id > 1
    /\ Cardinality(NotificationsOf(Notification, last.target, last.user,
                                   {"new_follower", "follow_request"})) > 1

C14_UnfollowDeletesFollowNotification ==
    (/\ last.op = "unfollow_user"
     /\ last.outcome = "unfollowed"
     /\ ~is_private[last.target])
    => NotificationsOf(Notification, last.target, last.user, NewFollowerTypes) = {}

\* C17: every stored Notification has a notification_type of
\* Notification.NOTIFICATION_TYPES.
C17_NotificationTypeInEnumeration ==
    \A n \in Notification : n.notification_type \in NOTIFICATION_TYPES

\* C20: Follow.get_mutual_followers(a, b) returns exactly the accounts c with
\* Follow(a->c) and Follow(b->c): empty when a and b follow no account in
\* common, {c} when both follow c and only c.
C20_MutualFollowersFollowedByBoth ==
    (last.op = "get_mutual_followers" /\ last.user # last.target)
    => last.users = {c \in Accounts : /\ is_following(last.user, c)
                                      /\ is_following(last.target, c)}

\* C15: for every user u and post p owned by someone else, the number of like
\* notifications (recipient = owner, sender = u, post = p) is 1 when u likes p
\* and 0 when not, after every step; and a toggle_like(u, p) that likes leaves
\* that single notification with is_read false.
C15_OneLikeNotificationWhileLiked ==
    [][/\ \A u \in Users, p \in Post' :
            p.user # u
            => Cardinality(LikeNotifications(Notification', p, u))
                 = IF LikesOf(Like', u, p.id) # {} THEN 1 ELSE 0
       /\ \A p \in Post :
            (/\ Handled("toggle_like")
             /\ last'.request_id = p.id
             /\ last'.outcome = "liked"
             /\ last'.user # p.user)
            => \A n \in LikeNotifications(Notification', p, last'.user) :
                  ~n.is_read]_vars

\* u liked another user's post, unliked it and liked it again (the second
\* notification row, the first one gone): one unread notification
C15_Witness ==
    /\ last.op = "toggle_like"
    /\ last.outcome = "liked"
    /\ last.user # last.target
    /\ next_notification_id > 2
    /\ \E p \in Post :
          /\ p.id = last.request_id
          /\ LikesOf(Like, last.user, p.id) # {}
          /\ Cardinality(LikeNotifications(Notification, p, last.user)) = 1
          /\ \A n \in LikeNotifications(Notification, p, last.user) :
                ~n.is_read /\ n.id > 1
          /\ \A n \in Notification : n.post_id = p.id

\* C16: no stored Notification has its sender as its recipient.
C16_NoSelfNotification ==
    \A n \in Notification : n.sender # n.recipient

\* a user commented on their own post, which they also like, after sending
\* themselves a follow request or not: the only notifications stored are the
\* ones other users caused
C16_Witness ==
    /\ last.op = "add_comment"
    /\ last.outcome = "commented"
    /\ last.user = last.target
    /\ LikesOf(Like, last.user, last.request_id) # {}
    /\ \E n \in Notification : n.notification_type = "follow_accepted"
    /\ \E n \in Notification : n.notification_type = "like"
    /\ \A n \in Notification : n.recipient # n.sender

\* the visibility policy: the owner, anyone when the owner is public, and
\* followers of the owner
CanView(viewer, owner) ==
    \/ viewer = owner
    \/ ~is_private[owner]
    \/ is_following(viewer, owner)

\* the pages that compute a visibility decision
GatedViews ==
    {"followers_view", "following_view", "profile_view", "story_viewer",
     "get_stories_data"}

C19_ListingsApplyVisibility ==
    last.op \in {"explore_view", "user_posts", "post_detail", "profile_view",
                 "home_view", "story_home_view", "story_viewer", "get_stories_data"}
    => \A x \in last.posts \cup last.stories : CanView(last.user, x.user)


\* C21: mark_notification_read(id, u) sets is_read and is_seen on the
\* notification with that id only when its recipient is u, and changes no
\* other row; when no row has the id, or the row is another user's, it
\* answers not-found and the Notification table stays as it was.
C21_MarkReadOnlyOwnNotification ==
    [][Handled("mark_notification_read") =>
        LET own == {n \in Notification :
                        n.id = last'.request_id /\ n.recipient = last'.user}
        IN  IF own = {}
            THEN last'.outcome = "not_found" /\ Notification' = Notification
            ELSE /\ last'.outcome = "read"
                 /\ Notification' = (Notification \ own) \cup
                        {[n EXCEPT !.is_read = TRUE, !.is_seen = TRUE] : n \in own}
      ]_vars

\* a user asked for a notification that exists and is another user's: it is
\* still unread and unseen
C21_Witness ==
    /\ last.op = "mark_notification_read"
    /\ last.outcome = "not_found"
    /\ \E n \in Notification :
          /\ n.id = last.request_id
          /\ n.recipient # last.user
          /\ ~n.is_read /\ ~n.is_seen

\* C22: after mark_all_read(u) every notification whose recipient is u has
\* is_read and is_seen, and the notifications of other recipients are the
\* ones there were.
C22_MarkAllReadReadsAndSees ==
    [][Handled("mark_all_read") =>
        /\ \A n \in Notification' :
              n.recipient = last'.user => n.is_read /\ n.is_seen
        /\ {n \in Notification' : n.recipient # last'.user}
              = {n \in Notification : n.recipient # last'.user}
      ]_vars

\* C23: mark_all_seen(u) sets is_seen on every notification of u and
\* changes nothing else: each of u's rows keeps every other field, is_read
\* among them, and the rows of other recipients and every other table stay
\* as they were.
C23_MarkAllSeenOnlySetsSeen ==
    [][Handled("mark_all_seen") =>
        /\ \A n \in Notification :
              IF n.recipient = last'.user
              THEN [n EXCEPT !.is_seen = TRUE] \in Notification'
              ELSE n \in Notification'
        /\ Cardinality(Notification') = Cardinality(Notification)
        /\ UNCHANGED <<is_private, FollowRequest, Follow, counters, content, messaging>>
      ]_vars

\* mark_all_seen(u) ran while u had an unread notification, now seen and
\* still unread, and another recipient had an unseen one
C23_Witness ==
    /\ last.op = "mark_all_seen"
    /\ \E n \in Notification : n.recipient = last.user /\ n.is_seen /\ ~n.is_read
    /\ \E n \in Notification : n.recipient # last.user /\ ~n.is_seen


\* C26: each successful send_message by a participant of the thread adds
\* exactly one message notification, whose recipient is the other
\* participant and whose sender is the sender of the message.
C26_SendMessageNotifies ==
    [][Handled("send_message") /\ last'.outcome = "sent" =>
        \E n \in Notification' :
            /\ n \notin Notification
            /\ Notification' = Notification \cup {n}
            /\ n.notification_type = "message"
            /\ n.recipient = last'.target
            /\ n.sender = last'.user
      ]_vars


\* C24: when two send_follow_request calls for one (requester, target) pair
\* both read before either writes, at most one FollowRequest row for the
\* pair exists afterwards, and the later call ends in the already-exists /
\* duplicate outcome, not in an unhandled failure.
C24_ConcurrentSendsEndAsDuplicate ==
    /\ \A a \in Users, b \in Users : Cardinality(RequestsOf(FollowRequest, a, b)) <= 1
    /\ last.op = "send_follow_request" => last.outcome # "integrity_error"

\* C27: the status of a FollowRequest changes only along pending->accepted,
\* pending->declined and declined->pending: in every step an accepted
\* request stays accepted or is deleted, by unfollow_user, and a declined
\* request is never accepted without being pending first.
C27_StatusChangesAlongLifecycle ==
    [][\A r \in FollowRequest :
          LET after == {x \in FollowRequest' : x.id = r.id} IN
          /\ \A x \in after :
                x.status # r.status =>
                    <<r.status, x.status>> \in {<<"pending", "accepted">>,
                                                <<"pending", "declined">>,
                                                <<"declined", "pending">>}
          /\ after = {} => r.status = "accepted" /\ last'.op = "unfollow_user"
      ]_vars

\* C28: in every state that complete send_follow_request,
\* accept_follow_request, decline_follow_request and unfollow_user
\* operations reach, Follow(a->b) exists if and only if a FollowRequest(a, b)
\* with status accepted exists.
C28_EdgeIffAcceptedRequest ==
    \A a \in Users, b \in Users :
        EdgesOf(Follow, a, b) # {}
            <=> \E r \in RequestsOf(FollowRequest, a, b) : r.status = "accepted"

\* an accept has just stored the edge of one direction, and the other
\* direction has a request that is not accepted and no edge
C28_Witness ==
    /\ last.op = "accept_follow_request"
    /\ last.outcome = "accepted"
    /\ \E a \in Users, b \in Users :
          /\ EdgesOf(Follow, a, b) # {}
          /\ \E r \in RequestsOf(FollowRequest, a, b) : r.status = "accepted"
          /\ EdgesOf(Follow, b, a) = {}
          /\ \E r \in RequestsOf(FollowRequest, b, a) : r.status # "accepted"

\* C29: when accept_follow_request and decline_follow_request of one pending
\* request interleave, or two send_follow_request calls reopening one
\* declined request interleave with an accept, the state they leave never
\* has Follow(a->b) together with a FollowRequest(a, b) that is pending or
\* declined.
C29_NoEdgeWithOpenRequest ==
    (\A c \in Calls : calls[c] = Idle) =>
        \A f \in Follow :
            \A r \in RequestsOf(FollowRequest, f.follower, f.following) :
                r.status \notin {"pending", "declined"}


\* C25: under any interleaving of toggle_like requests of one user on one
\* post, taken statement by statement with the unique (user, post)
\* constraint on Like, there is never more than one like notification for
\* the (post owner, liker, post) triple.
C25_OneLikeNotificationPerTriple ==
    \A p \in Post, u \in Users : Cardinality(LikeNotifications(Notification, p, u)) <= 1

\* C30: once every interleaved toggle_like request of a user on a post has
\* finished, a like notification for (post owner, user, post) exists only if
\* the Like(user, post) row exists.
C30_LikeNotificationOnlyWithLike ==
    (\A c \in Calls : calls[c] = Idle) =>
        \A p \in Post, u \in Users :
            LikeNotifications(Notification, p, u) # {} => LikesOf(Like, u, p.id) # {}

=============================================================================
